---- MODULE Spec2Model ----
(***************************************************************************)
(* Verification model of the swap-math fee engine (swap-math/src/math.rs)  *)
(* and of the chat-message storage entrypoint (program/src/lib.rs).        *)
(*                                                                         *)
(* u64 and u128 values are kept at their real width.  Since they do not    *)
(* fit the model checker's machine integers, a value is a little-endian    *)
(* sequence of base-256 digits without leading zero digits (zero is the    *)
(* empty sequence); the arithmetic below is exact.                         *)
(***************************************************************************)
EXTENDS Integers, Sequences, FiniteSets, TLC

\* ------------------------------------------------------------------------
\* Bounds of the model
\* ------------------------------------------------------------------------

\* Operand values are taken within this distance of each width threshold.
MaxDelta == 1

\* Pool sizes 0..MaxCoins are tried besides the ones around the u8 limit.
MaxCoins == 4

\* At most MaxOthers calls carry instruction data other than the sanity
\* test's message.
MaxOthers == 1

\* ------------------------------------------------------------------------
\* Exact unsigned arithmetic on digit sequences
\*
\* Carries are found by lookahead instead of digit-by-digit recursion, so
\* that an operation is a fixed, shallow expression.
\* ------------------------------------------------------------------------

\* One byte holds the values 0 .. BYTE-1.
BYTE == 256

SetMax(S) == CHOOSE m \in S : \A k \in S : k <= m
SetMin(S) == CHOOSE m \in S : \A k \in S : m <= k

\* Digit i of x, zero beyond its length.
Digit(x, i) == IF i >= 1 /\ i <= Len(x) THEN x[i] ELSE 0

\* The digits v without the leading zeros.
NormV(v) ==
    LET nz == {i \in 1..Len(v) : v[i] # 0}
    IN  IF nz = {} THEN <<>> ELSE SubSeq(v, 1, SetMax(nz))

Norm(x) == CHOOSE r \in {NormV(v) : v \in {x}} : TRUE

\* A machine integer 0 <= n < 2^31.
FromInt(n) ==
    Norm(<<n % BYTE, (n \div BYTE) % BYTE, (n \div (BYTE * BYTE)) % BYTE,
           n \div (BYTE * BYTE * BYTE)>>)

\* 2^k for k a multiple of 8.
Pow2(k) == [i \in 1..(k \div 8 + 1) |-> IF i = k \div 8 + 1 THEN 1 ELSE 0]

CmpV(x, y) ==
    LET diff == {i \in 1..Len(x) : x[i] # y[i]}
    IN  IF Len(x) < Len(y) THEN -1
        ELSE IF Len(x) > Len(y) THEN 1
        ELSE IF diff = {} THEN 0
        ELSE IF x[SetMax(diff)] < y[SetMax(diff)] THEN -1 ELSE 1

Cmp(x, y) == CHOOSE r \in {CmpV(p[1], p[2]) : p \in {<<x, y>>}} : TRUE

Less(x, y) == Cmp(x, y) < 0
LessEq(x, y) == Cmp(x, y) <= 0

\* x + y.  There is a carry into digit i when some lower digit pair
\* overflows and every pair between them sums to BYTE - 1.
AddV(x, y) ==
    LET n == IF Len(x) > Len(y) THEN Len(x) ELSE Len(y)
        S(i) == Digit(x, i) + Digit(y, i)
        CarryIn(i) ==
            \E j \in 1..(i - 1) :
                /\ S(j) >= BYTE
                /\ \A m \in (j + 1)..(i - 1) : S(m) = BYTE - 1
    IN  CHOOSE r \in {NormV(v) : v \in {[i \in 1..(n + 1) |->
                 (S(i) + IF CarryIn(i) THEN 1 ELSE 0) % BYTE]}} : TRUE

Add(x, y) == CHOOSE r \in {AddV(p[1], p[2]) : p \in {<<x, y>>}} : TRUE

\* x - y for y <= x.  There is a borrow from digit i when some lower digit
\* of x is below that of y and the digits between them are equal.
SubV(x, y) ==
    LET BorrowIn(i) ==
            \E j \in 1..(i - 1) :
                /\ Digit(x, j) < Digit(y, j)
                /\ \A m \in (j + 1)..(i - 1) : Digit(x, m) = Digit(y, m)
    IN  CHOOSE r \in {NormV(v) : v \in {[i \in 1..Len(x) |->
                 (x[i] - Digit(y, i) - (IF BorrowIn(i) THEN 1 ELSE 0)
                      + BYTE) % BYTE]}} : TRUE

Sub(x, y) == CHOOSE r \in {SubV(p[1], p[2]) : p \in {<<x, y>>}} : TRUE

\* x * d for 0 <= d <= BYTE: the low bytes of the digit products plus their
\* high bytes one place up.
MulSmallV(x, d) ==
    CHOOSE r \in {AddV(p[1], p[2]) : p \in {
        << [i \in 1..Len(x) |-> (x[i] * d) % BYTE],
           [i \in 1..(Len(x) + 1) |->
               IF i = 1 THEN 0 ELSE (x[i - 1] * d) \div BYTE] >>}} : TRUE

MulSmall(x, d) == CHOOSE r \in {MulSmallV(v, d) : v \in {x}} : TRUE

\* The number of digits of 2^64, one more than a u64 has.
SHORT == Len(Pow2(64))

\* x * y for x of at most SHORT digits: column k sums the digit products
\* x[i] * y[k + 1 - i]; a column is below BYTE^3, and the product is the
\* sum of the columns' three bytes, each at its place.
MulShortV(x, y) ==
    LET T(k, i) == Digit(x, i) * Digit(y, k + 1 - i)
        Col(k) == T(k, 1) + T(k, 2) + T(k, 3) + T(k, 4) + T(k, 5)
                      + T(k, 6) + T(k, 7) + T(k, 8) + T(k, 9)
        n == Len(x) + Len(y)
    IN  CHOOSE r \in {AddV(AddV(p[1], p[2]), p[3]) : p \in {
            << [k \in 1..n |-> Col(k) % BYTE],
               [k \in 1..(n + 1) |->
                   IF k = 1 THEN 0 ELSE (Col(k - 1) \div BYTE) % BYTE],
               [k \in 1..(n + 2) |->
                   IF k <= 2 THEN 0 ELSE Col(k - 2) \div (BYTE * BYTE)] >>}}
            : TRUE

\* x * y, where one of the two has at most SHORT digits.
MulV(x, y) ==
    IF Len(x) <= SHORT THEN MulShortV(x, y)
    ELSE IF Len(y) <= SHORT THEN MulShortV(y, x)
    ELSE CHOOSE p \in {} : TRUE

Mul(x, y) == CHOOSE r \in {MulV(p[1], p[2]) : p \in {<<x, y>>}} : TRUE

\* The digit d with y * d <= r < y * (d + 1), for y # 0 and r < BYTE * y.
\* The two leading digits of y and the digits of r above them bound d from
\* both sides; d is the one value in that range with the property.
QDigit(r, y) ==
    LET n == Len(y)
        y2 == y[n] * BYTE + Digit(y, n - 1)
        r3 == Digit(r, n + 1) * BYTE * BYTE + Digit(r, n) * BYTE
                  + Digit(r, n - 1)
        lo == r3 \div (y2 + 1)
        hi == IF r3 \div y2 < BYTE THEN r3 \div y2 ELSE BYTE - 1
    IN  IF n = 1 THEN (Digit(r, 2) * BYTE + Digit(r, 1)) \div y[1]
        ELSE CHOOSE d \in lo..hi :
                 /\ CmpV(MulSmallV(y, d), r) <= 0
                 /\ CmpV(r, MulSmallV(y, d + 1)) < 0

\* One step of long division by y # 0: st is <<the quotient digits found,
\* the remainder>>, and the next digit of the dividend is brought down.
DivStep(digit, y, st) ==
    CHOOSE s \in {<< <<p[2]>> \o st[1], SubV(p[1], MulSmallV(y, p[2])) >> :
        p \in {<<r1, QDigit(r1, y)>> :
            r1 \in {IF digit = 0 /\ st[2] = <<>> THEN <<>>
                    ELSE <<digit>> \o st[2]}}} : TRUE

\* Long division of x by y # 0, from digit i of x down to digit 1; the
\* set of its one result.
RECURSIVE DivFrom(_, _, _, _)
DivFrom(x, y, i, st) ==
    IF i = 0 THEN {st[1]}
    ELSE UNION {DivFrom(p[1], p[2], p[3], p[4]) :
                    p \in {<<x, y, i - 1, DivStep(x[i], y, st)>>}}

Div(x, y) ==
    CHOOSE q \in UNION {
        {NormV(d) : d \in DivFrom(p[1], p[2], Len(p[1]), <<<<>>, <<>>>>)} :
            p \in {<<x, y>>}} : TRUE

\* ------------------------------------------------------------------------
\* Option<T>: None is the empty sequence, Some(v) the one-element sequence
\* ------------------------------------------------------------------------

None == <<>>
Some(v) == <<v>>
IsSome(o) == o # None
Unwrap(o) == o[1]

\* ------------------------------------------------------------------------
\* Rust's checked integer operations at their widths
\* ------------------------------------------------------------------------

U64_LIMIT == Pow2(64)
U128_LIMIT == Pow2(128)
U64_MAX == Sub(U64_LIMIT, FromInt(1))

\* One more than u8::MAX.
U8_LIMIT == 256

\* u64::checked_mul
checked_mul_u64(x, y) ==
    LET p == Mul(x, y) IN IF Less(p, U64_LIMIT) THEN Some(p) ELSE None

\* u128::checked_mul
checked_mul_u128(x, y) ==
    LET p == Mul(x, y) IN IF Less(p, U128_LIMIT) THEN Some(p) ELSE None

\* A division that yields zero instead of failing on a zero divisor.
checked_div_or_zero(x, y) ==
    IF y = <<>> THEN Some(<<>>) ELSE Some(Div(x, y))

\* checked_div, at either width
checked_div(x, y) ==
    IF y = <<>> THEN None ELSE Some(Div(x, y))

\* A narrowing that keeps the low 64 bits (an `as u64` cast).
as_u64(x) == Some(Norm(SubSeq(x, 1, IF Len(x) < 8 THEN Len(x) ELSE 8)))

\* ToPrimitive::to_u64 of a u128
to_u64(x) == IF Less(x, U64_LIMIT) THEN Some(x) ELSE None

\* u8::checked_sub and u8::checked_mul, on plain integers 0..255
checked_sub_u8(x, y) == IF x < y THEN None ELSE Some(x - y)
checked_mul_u8(x, y) == IF x * y >= U8_LIMIT THEN None ELSE Some(x * y)

\* ------------------------------------------------------------------------
\* swap-math/src/math.rs
\* ------------------------------------------------------------------------

MAX == Pow2(32)
MAX_BIG == Pow2(48)
MAX_SMALL == Pow2(16)

\* The widened branch shared by both primitives:
\* (a as u128).checked_mul(b as u128)?.checked_div(c as u128)?.to_u64()
wide_mul_div(a, b, c) ==
    LET m == checked_mul_u128(a, b)
    IN  IF m = None THEN None
        ELSE LET d == checked_div(Unwrap(m), c)
             IN  IF d = None THEN None ELSE to_u64(Unwrap(d))

\* The 64-bit branch shared by both primitives:
\* a.checked_mul(b)?.checked_div(c)
narrow_mul_div(a, b, c) ==
    LET m == checked_mul_u64(a, b)
    IN  IF m = None THEN None ELSE checked_div(Unwrap(m), c)

mul_div(a, b, c) ==
    IF Less(MAX, a) \/ Less(MAX, b)
    THEN wide_mul_div(a, b, c)
    ELSE narrow_mul_div(a, b, c)

\* The primitive with its rate arguments in the wrong order.
mul_div_imbalanced_swapped(a, b, c) ==
    IF Less(MAX_BIG, a) \/ Less(MAX_SMALL, c)
    THEN wide_mul_div(a, c, b)
    ELSE narrow_mul_div(a, c, b)

mul_div_imbalanced(a, b, c) ==
    IF Less(MAX_BIG, a) \/ Less(MAX_SMALL, b)
    THEN wide_mul_div(a, b, c)
    ELSE narrow_mul_div(a, b, c)

\* Fees: the four rate pairs.
Fees(tn, td, atn, atd, awn, awd, wn, wd) ==
    [trade_fee_numerator |-> tn, trade_fee_denominator |-> td,
     admin_trade_fee_numerator |-> atn, admin_trade_fee_denominator |-> atd,
     admin_withdraw_fee_numerator |-> awn,
     admin_withdraw_fee_denominator |-> awd,
     withdraw_fee_numerator |-> wn, withdraw_fee_denominator |-> wd]

\* The admin trade fee computed from the trade rate pair.
admin_trade_fee_wrong_pair(self, fee_amount) ==
    mul_div_imbalanced(fee_amount, self.trade_fee_numerator,
                       self.trade_fee_denominator)

admin_trade_fee(self, fee_amount) ==
    mul_div_imbalanced(fee_amount, self.admin_trade_fee_numerator,
                       self.admin_trade_fee_denominator)

admin_withdraw_fee(self, fee_amount) ==
    mul_div_imbalanced(fee_amount, self.admin_withdraw_fee_numerator,
                       self.admin_withdraw_fee_denominator)

trade_fee(self, trade_amount) ==
    mul_div_imbalanced(trade_amount, self.trade_fee_numerator,
                       self.trade_fee_denominator)

withdraw_fee(self, withdraw_amount) ==
    mul_div_imbalanced(withdraw_amount, self.withdraw_fee_numerator,
                       self.withdraw_fee_denominator)

\* The divisor without the subtraction: n_coins.checked_mul(4)
adjusted_divisor_no_sub(n) == checked_mul_u8(n, 4)

\* (n_coins.checked_sub(1)?).checked_mul(4)?, in u8
adjusted_divisor(n) ==
    LET s == checked_sub_u8(n, 1)
    IN  IF s = None THEN None ELSE checked_mul_u8(Unwrap(s), 4)

normalized_trade_fee(self, n, amt) ==
    LET d == adjusted_divisor(n)
    IN  IF d = None THEN None
        ELSE LET adjusted_trade_fee_numerator ==
                     mul_div(self.trade_fee_numerator, FromInt(n),
                             FromInt(Unwrap(d)))
             IN  IF adjusted_trade_fee_numerator = None THEN None
                 ELSE mul_div(amt, Unwrap(adjusted_trade_fee_numerator),
                              self.trade_fee_denominator)

\* ------------------------------------------------------------------------
\* Inputs
\* ------------------------------------------------------------------------

Zero == <<>>

Near(t) ==
    {Add(t, FromInt(d)) : d \in 0..MaxDelta}
        \cup {Sub(t, FromInt(d)) : d \in 1..MaxDelta}

\* Operands of the primitives: small values, the neighbourhood of each
\* threshold, a value between the thresholds and the top of the range.
OperandValues ==
    {FromInt(n) : n \in {0, 1, 2, 6, 7}}
        \cup Near(MAX_SMALL) \cup Near(MAX) \cup Near(MAX_BIG)
        \cup {Pow2(40)}
        \cup {Sub(U64_MAX, FromInt(d)) : d \in 0..MaxDelta}

DivisorValues ==
    {FromInt(n) : n \in {0, 1, 2, 1000}} \cup {MAX, U64_MAX}

AmountValues ==
    {FromInt(n) : n \in {0, 1, 100, 1000000}}
        \cup Near(MAX_BIG) \cup {U64_MAX}

\* Rate pairs <<numerator, denominator>>.
RatePairs ==
    << <<FromInt(1), FromInt(1000)>>,
       <<FromInt(25), FromInt(10000)>>,
       <<FromInt(1), Zero>>,
       <<U64_MAX, Zero>>,
       <<FromInt(3), FromInt(2)>>,
       <<U64_MAX, U64_MAX>>,
       <<MAX_SMALL, MAX>> >>

NPairs == Len(RatePairs)

Pair(i) == RatePairs[(i % NPairs) + 1]

\* Fee configurations: every two of the four rate pairs take every
\* combination of values.
FeeConfigs ==
    {Fees(Pair(i)[1], Pair(i)[2], Pair(j)[1], Pair(j)[2],
          Pair(i + j)[1], Pair(i + j)[2],
          Pair(i + 2 * j)[1], Pair(i + 2 * j)[2]) :
        i \in 0..(NPairs - 1), j \in 0..(NPairs - 1)}

NoFees == Fees(Zero, Zero, Zero, Zero, Zero, Zero, Zero, Zero)

\* Pool sizes: the small ones, the ones around the u8 overflow of
\* 4 * (n_coins - 1), and the largest.
NCoinsValues == (0..MaxCoins) \cup {64, 65, 66, 255}

\* ------------------------------------------------------------------------
\* program/src/lib.rs: ChatMessage and its Borsh encoding
\*
\* A string is its sequence of bytes; every byte of the model is ASCII
\* (below 128), so every decoded string is valid UTF-8 and every length
\* prefix fits a machine integer.
\* ------------------------------------------------------------------------

\* The ASCII code of the character '0'.
CHAR_ZERO == 48

\* The number of placeholder entries of an account.
N_MESSAGES == 20

\* The lengths of the two placeholder strings.
TX_ID_LEN == 43
CREATED_ON_LEN == 16

Repeat(ch, n) == [i \in 1..n |-> ch]

DUMMY_TX_ID == Repeat(CHAR_ZERO, TX_ID_LEN)
DUMMY_CREATED_ON == Repeat(CHAR_ZERO, CREATED_ON_LEN)

ChatMessage(id, on) == [archive_id |-> id, created_on |-> on]

get_init_chat_message == ChatMessage(DUMMY_TX_ID, DUMMY_CREATED_ON)

get_init_chat_messages == [i \in 1..N_MESSAGES |-> get_init_chat_message]

\* A u32 in little-endian order.
u32_le(n) ==
    <<n % BYTE, (n \div BYTE) % BYTE, (n \div (BYTE * BYTE)) % BYTE,
      n \div (BYTE * BYTE * BYTE)>>

u32_at(buf, pos) ==
    buf[pos] + BYTE * buf[pos + 1] + BYTE * BYTE * buf[pos + 2]
        + BYTE * BYTE * BYTE * buf[pos + 3]

\* BorshSerialize: a string is its length and its bytes, a message its two
\* strings, a vector its length and its elements.
ser_string(str) == u32_le(Len(str)) \o str

ser_message(m) == ser_string(m.archive_id) \o ser_string(m.created_on)

\* The encodings of ms[lo] .. ms[hi], one after the other.
RECURSIVE ser_elements(_, _, _)
ser_elements(ms, lo, hi) ==
    IF lo > hi THEN <<>>
    ELSE IF lo = hi THEN ser_message(ms[lo])
    ELSE ser_elements(ms, lo, (lo + hi) \div 2)
             \o ser_elements(ms, (lo + hi) \div 2 + 1, hi)

try_to_vec(ms) ==
    CHOOSE r \in {u32_le(Len(v)) \o ser_elements(v, 1, Len(v)) :
                      v \in {ms}} : TRUE

\* BorshDeserialize from position pos of buf: err is "" on success, val the
\* value read and next the position after it.  Input that ends early is an
\* error of kind InvalidInput.
Decoded(v, n) == [err |-> "", val |-> v, next |-> n]
Failed(kind) == [err |-> kind, val |-> <<>>, next |-> 0]

de_string(buf, pos) ==
    IF pos + 3 > Len(buf) THEN Failed("InvalidInput")
    ELSE LET n == u32_at(buf, pos)
         IN  IF pos + 3 + n > Len(buf) THEN Failed("InvalidInput")
             ELSE Decoded(SubSeq(buf, pos + 4, pos + 3 + n), pos + 4 + n)

de_message(buf, pos) ==
    LET id == de_string(buf, pos)
        on == de_string(buf, id.next)
    IN  IF id.err # "" THEN id
        ELSE IF on.err # "" THEN on
        ELSE Decoded(ChatMessage(id.val, on.val), on.next)

\* One more element read after the elements st.val, from position st.next.
de_element(buf, st) ==
    LET m == de_message(buf, st.next)
    IN  IF m.err # "" THEN m
        ELSE Decoded(Append(st.val, m.val), m.next)

\* count more elements read after those of st, or the first error; the
\* set of the one result.
RECURSIVE de_elements(_, _, _)
de_elements(buf, count, st) ==
    IF count = 0 \/ st.err # "" THEN {st}
    ELSE UNION {de_elements(p[1], p[2], p[3]) :
                    p \in {<<buf, count - 1, de_element(buf, st)>>}}

de_messages(buf, pos) ==
    IF pos + 3 > Len(buf) THEN Failed("InvalidInput")
    ELSE CHOOSE d \in de_elements(buf, u32_at(buf, pos),
                                  Decoded(<<>>, pos + 4)) : TRUE

\* try_from_slice: the value, and an error of kind InvalidData when bytes
\* are left over.
not_all_bytes_read(d, buf) ==
    IF d.err = "" /\ d.next <= Len(buf) THEN Failed("InvalidData") ELSE d

message_try_from_slice(buf) == not_all_bytes_read(de_message(buf, 1), buf)

messages_try_from_slice(buf) == not_all_bytes_read(de_messages(buf, 1), buf)

\* ------------------------------------------------------------------------
\* program/src/lib.rs: process_instruction
\* ------------------------------------------------------------------------

\* The positions of the placeholder entries.
dummy_positions(ms) ==
    {i \in 1..Len(ms) : ms[i].archive_id = DUMMY_TX_ID}

\* The position of the last placeholder entry (0 when there is none).
last_dummy_position(ms) ==
    IF dummy_positions(ms) = {} THEN 0 ELSE SetMax(dummy_positions(ms))

\* iter().position(|p| p.archive_id == DUMMY_TX_ID), counted from 1;
\* 0 stands for None.
first_dummy_position(ms) ==
    IF dummy_positions(ms) = {} THEN 0 ELSE SetMin(dummy_positions(ms))

\* One call of the entrypoint on an account with the given owner and data.
\* The result is the call's outcome ("Ok", "Err", or "Panic" for an abort),
\* the account data it leaves and whether the ownership warning was
\* logged.  The ownership test only logs; the call goes on.
process_instruction(program_id, owner, data, instruction_data) ==
    LET warned == owner # program_id
        Outcome(st, d) == [status |-> st, data |-> d, warned |-> warned]
        \* data[..updated_data.len()].copy_from_slice(&updated_data)
        Written(updated_data) ==
            updated_data \o SubSeq(data, Len(updated_data) + 1, Len(data))
        \* existing_data_messages[index] = instruction_data_message, the
        \* encoding, the copy into the account and the decoding back
        Save(existing_data_messages, instruction_data_message) ==
            LET index == first_dummy_position(existing_data_messages)
            IN  IF index = 0 THEN Outcome("Panic", data)
                ELSE CHOOSE o \in {
                    IF Len(updated_data) > Len(data)
                    THEN Outcome("Panic", data)
                    ELSE Outcome(
                             IF messages_try_from_slice(
                                    Written(updated_data)).err = ""
                             THEN "Ok" ELSE "Err",
                             Written(updated_data)) :
                    updated_data \in {try_to_vec(
                        [existing_data_messages EXCEPT
                             ![index] = instruction_data_message])}} : TRUE
    IN  CHOOSE o \in UNION {
            IF instruction_data_message.err # ""
            THEN {Outcome("Err", data)}
            ELSE {IF existing.err = ""
                  THEN Save(existing.val, instruction_data_message.val)
                  ELSE IF existing.err = "InvalidData"
                  THEN Save(get_init_chat_messages,
                            instruction_data_message.val)
                  ELSE Outcome("Panic", data) :
                  existing \in {messages_try_from_slice(data)}} :
            instruction_data_message \in
                {message_try_from_slice(instruction_data)}} : TRUE

\* ------------------------------------------------------------------------
\* Inputs of the entrypoint
\* ------------------------------------------------------------------------

\* "abcdefghijabcdefghijabcdefghijabcdefghijabc"
TestArchiveId == [i \in 1..TX_ID_LEN |-> 97 + ((i - 1) % 10)]

\* "0001621449453837"
TestCreatedOn ==
    [i \in 1..CREATED_ON_LEN |->
        CHAR_ZERO + <<0, 0, 0, 1, 6, 2, 1, 4, 4, 9, 4, 5, 3, 8, 3, 7>>[i]]

\* The message of the sanity test.
TestMessage == ChatMessage(TestArchiveId, TestCreatedOn)

\* Another message of the same encoded size: an id one character shorter
\* and a time one character longer.
OtherMessage ==
    ChatMessage(Repeat(98, TX_ID_LEN - 1), Repeat(49, CREATED_ON_LEN + 1))

\* A message that carries the placeholder id.
PlaceholderIdMessage == ChatMessage(DUMMY_TX_ID, TestCreatedOn)

\* Messages whose encoding is shorter and longer than a placeholder's.
ShortMessage == ChatMessage(Repeat(99, 10), TestCreatedOn)
LongMessage == ChatMessage(Repeat(100, TX_ID_LEN + 1), TestCreatedOn)

\* Instruction data other than the sanity test's: the four messages above
\* and the undecodable bytes of the transaction test.
OtherInstructions ==
    {ser_message(m) : m \in {OtherMessage, PlaceholderIdMessage,
                             ShortMessage, LongMessage}}
        \cup {<<1, 2, 3>>}

InitialData == try_to_vec(get_init_chat_messages)

\* Account data before the first call: the encoded placeholders, a
\* zero-filled account of that size, of one byte less and of one byte
\* more, and an encoding cut after its first eight bytes.
AccountDataValues ==
    {InitialData,
     Repeat(0, Len(InitialData)),
     Repeat(0, Len(InitialData) - 1),
     Repeat(0, Len(InitialData) + 1),
     SubSeq(InitialData, 1, 8)}

PROGRAM_ID == "program"

Owners == {PROGRAM_ID, "other"}

\* ------------------------------------------------------------------------
\* State
\* ------------------------------------------------------------------------

\* The fee engine: the arguments of one call, the operation called and its
\* result.  op is "primitive_args" or "fee_args" while the arguments are
\* chosen and no call has been made, the name of the operation after the
\* call, and "idle" when the fee engine is not exercised.
\*
\* The storage program: the account's owner and data, and about the calls
\* made so far: the outcome of the last one (status), the number of calls
\* whose instruction data was not the sanity test's (others), whether every
\* call so far returned Ok and carried a message without the placeholder id
\* (clean), and while clean, the messages of these calls in order (stored).
VARIABLES op, a, b, c, fees, n_coins, amount, result,
          account_owner, account_data, status, others, clean, stored

math_vars == <<op, a, b, c, fees, n_coins, amount, result>>

chat_vars == <<account_owner, account_data, status, others, clean, stored>>

vars == <<math_vars, chat_vars>>

MathIdle ==
    /\ op = "idle"
    /\ a = Zero /\ b = Zero /\ c = Zero
    /\ fees = NoFees /\ n_coins = 0 /\ amount = Zero
    /\ result = None

ChatIdle ==
    /\ account_owner = PROGRAM_ID
    /\ account_data = <<>>
    /\ status = "idle"
    /\ others = 0
    /\ clean = FALSE
    /\ stored = <<>>

InitPrimitive ==
    /\ op = "primitive_args"
    /\ a \in OperandValues /\ b \in OperandValues /\ c \in DivisorValues
    /\ fees = NoFees /\ n_coins = 0 /\ amount = Zero
    /\ result = None
    /\ ChatIdle

InitFee ==
    /\ op = "fee_args"
    /\ fees \in FeeConfigs /\ n_coins \in NCoinsValues
    /\ amount \in AmountValues
    /\ a = Zero /\ b = Zero /\ c = Zero
    /\ result = None
    /\ ChatIdle

Init == InitPrimitive \/ InitFee

CallMulDiv ==
    /\ op = "primitive_args"
    /\ op' = "mul_div"
    /\ result' = mul_div(a, b, c)
    /\ UNCHANGED <<a, b, c, fees, n_coins, amount, chat_vars>>

CallMulDivImbalanced ==
    /\ op = "primitive_args"
    /\ op' = "mul_div_imbalanced"
    /\ result' = mul_div_imbalanced(a, b, c)
    /\ UNCHANGED <<a, b, c, fees, n_coins, amount, chat_vars>>

\* The four simple fee operations take no pool size.
CallAdminTradeFee ==
    /\ op = "fee_args"
    /\ op' = "admin_trade_fee"
    /\ result' = admin_trade_fee(fees, amount)
    /\ n_coins' = 0
    /\ UNCHANGED <<a, b, c, fees, amount, chat_vars>>

CallAdminWithdrawFee ==
    /\ op = "fee_args"
    /\ op' = "admin_withdraw_fee"
    /\ result' = admin_withdraw_fee(fees, amount)
    /\ n_coins' = 0
    /\ UNCHANGED <<a, b, c, fees, amount, chat_vars>>

CallTradeFee ==
    /\ op = "fee_args"
    /\ op' = "trade_fee"
    /\ result' = trade_fee(fees, amount)
    /\ n_coins' = 0
    /\ UNCHANGED <<a, b, c, fees, amount, chat_vars>>

CallWithdrawFee ==
    /\ op = "fee_args"
    /\ op' = "withdraw_fee"
    /\ result' = withdraw_fee(fees, amount)
    /\ n_coins' = 0
    /\ UNCHANGED <<a, b, c, fees, amount, chat_vars>>

CallNormalizedTradeFee ==
    /\ op = "fee_args"
    /\ op' = "normalized_trade_fee"
    /\ result' = normalized_trade_fee(fees, n_coins, amount)
    /\ UNCHANGED <<a, b, c, fees, n_coins, amount, chat_vars>>

Next ==
    \/ CallMulDiv
    \/ CallMulDivImbalanced
    \/ CallAdminTradeFee
    \/ CallAdminWithdrawFee
    \/ CallTradeFee
    \/ CallWithdrawFee
    \/ CallNormalizedTradeFee

\* The fee engine.
Spec == Init /\ [][Next]_vars

\* The storage program: an account before its first call.
ChatInit ==
    /\ MathIdle
    /\ account_owner \in Owners
    /\ account_data \in AccountDataValues
    /\ status = "none"
    /\ others = 0
    /\ clean = TRUE
    /\ stored = <<>>

\* One call of process_instruction with the given instruction data.
Call(instruction_data) ==
    \E r \in {process_instruction(PROGRAM_ID, account_owner, account_data,
                                  instruction_data)},
       m \in {message_try_from_slice(instruction_data)} :
        LET ok == /\ clean
                  /\ r.status = "Ok"
                  /\ m.val.archive_id # DUMMY_TX_ID
        IN  /\ account_data' = r.data
            /\ status' = r.status
            /\ clean' = ok
            /\ stored' = IF ok THEN Append(stored, m.val) ELSE <<>>
            /\ UNCHANGED <<account_owner, math_vars>>

\* The call of the sanity test.
ProcessTestMessage ==
    /\ Call(ser_message(TestMessage))
    /\ UNCHANGED others

\* A call with other instruction data.
ProcessOther ==
    /\ others < MaxOthers
    /\ others' = others + 1
    /\ \E d \in OtherInstructions : Call(d)

ChatNext == ProcessTestMessage \/ ProcessOther

ChatSpec == ChatInit /\ [][ChatNext]_vars

\* ------------------------------------------------------------------------
\* The mathematical result, stated with exact products only
\* ------------------------------------------------------------------------

One == FromInt(1)

\* q = floor(x * y / z) over the unbounded integers, for z # 0.
IsFloor(q, x, y, z) ==
    /\ z # Zero
    /\ LessEq(Mul(q, z), Mul(x, y))
    /\ Less(Mul(x, y), Mul(Add(q, One), z))

\* z # 0 and floor(x * y / z) < 2^64.
FloorFits(x, y, z) ==
    /\ z # Zero
    /\ Less(Mul(x, y), Mul(U64_LIMIT, z))

\* o is present and is floor(x * y / z).
PresentFloor(o, x, y, z) == IsSome(o) /\ IsFloor(Unwrap(o), x, y, z)

SimpleFeeOps ==
    {"admin_trade_fee", "admin_withdraw_fee", "trade_fee", "withdraw_fee"}

\* The rate pair a simple fee operation reads.
OwnPair(o, f) ==
    CASE o = "admin_trade_fee" ->
            <<f.admin_trade_fee_numerator, f.admin_trade_fee_denominator>>
      [] o = "admin_withdraw_fee" ->
            <<f.admin_withdraw_fee_numerator,
              f.admin_withdraw_fee_denominator>>
      [] o = "trade_fee" ->
            <<f.trade_fee_numerator, f.trade_fee_denominator>>
      [] o = "withdraw_fee" ->
            <<f.withdraw_fee_numerator, f.withdraw_fee_denominator>>

\* The simple fee operation named o.
ApplyFee(o, f, x) ==
    CASE o = "admin_trade_fee" -> admin_trade_fee(f, x)
      [] o = "admin_withdraw_fee" -> admin_withdraw_fee(f, x)
      [] o = "trade_fee" -> trade_fee(f, x)
      [] o = "withdraw_fee" -> withdraw_fee(f, x)

\* ------------------------------------------------------------------------
\* Claims
\* ------------------------------------------------------------------------

\* C1: for all u64 a, b, c with c # 0 and floor(a*b/c) < 2^64, mul_div
\* returns a present value equal to floor(a*b/c), the non-widened path
\* (a <= 2^32 and b <= 2^32, boundary values included) included.
C1_MulDivExact ==
    (op = "mul_div" /\ FloorFits(a, b, c)) => PresentFloor(result, a, b, c)

\* C2: for all u64 a >= b, c # 0 with floor(a*b/c) < 2^64,
\* mul_div_imbalanced returns a present value equal to floor(a*b/c), the
\* boundary values a = 2^48 and b = 2^16 included.
C2_MulDivImbalancedExact ==
    (op = "mul_div_imbalanced" /\ LessEq(b, a) /\ FloorFits(a, b, c))
        => PresentFloor(result, a, b, c)

\* C3: whenever mul_div or mul_div_imbalanced returns a present value,
\* c # 0 and the value is floor(a*b/c) over the unbounded integers and a
\* u64; so the result is absent when c = 0 and when floor(a*b/c) >= 2^64.
C3_NeverWrongValue ==
    (op \in {"mul_div", "mul_div_imbalanced"} /\ IsSome(result))
        => /\ IsFloor(Unwrap(result), a, b, c)
           /\ Less(Unwrap(result), U64_LIMIT)
           /\ FloorFits(a, b, c)

\* C3 witness: the overflowing case 2^40 * 2^40 / 1 is absent.
C3_Witness ==
    /\ op = "mul_div"
    /\ a = Pow2(40) /\ b = Pow2(40) /\ c = One
    /\ result = None

\* The two-step formula with the divisor 4 * (n - 1) as an exact integer.
TwoStepFee(f, n, x) ==
    LET adjusted == mul_div(f.trade_fee_numerator, FromInt(n),
                            FromInt(4 * (n - 1)))
    IN  IF adjusted = None THEN None
        ELSE mul_div(x, Unwrap(adjusted), f.trade_fee_denominator)

\* C4: for every n_coins in 2..255, normalized_trade_fee(n_coins, amount)
\* equals mul_div(amount, adjusted, trade_fee_denominator) with adjusted =
\* mul_div(trade_fee_numerator, n_coins, 4*(n_coins-1)), the divisor taken
\* as the exact integer, and is absent only when one of the two is absent.
C4_TwoStepFormula ==
    (op = "normalized_trade_fee" /\ n_coins \in 2..255)
        => result = TwoStepFee(fees, n_coins, amount)

\* C5: normalized_trade_fee is absent for every amount and every fee
\* configuration when n_coins = 0 and when n_coins = 1.
C5_AbsentBelowTwoCoins ==
    (op = "normalized_trade_fee" /\ n_coins \in {0, 1}) => result = None

\* C5 witness: a single-coin pool with a well-formed trade rate.
C5_Witness ==
    /\ op = "normalized_trade_fee"
    /\ n_coins = 1
    /\ amount = FromInt(100)
    /\ fees.trade_fee_denominator # Zero
    /\ result = None

\* C6: a zero denominator of an operation's rate makes the operation's
\* result absent, for every amount, numerator and pool size.
C6_ZeroDenominatorAbsent ==
    /\ (op \in SimpleFeeOps /\ OwnPair(op, fees)[2] = Zero)
           => result = None
    /\ (op = "normalized_trade_fee" /\ fees.trade_fee_denominator = Zero)
           => result = None

\* C6 witness: the normalized fee of a two-coin pool whose first step
\* succeeds and whose trade-fee denominator is zero.
C6_Witness ==
    /\ op = "normalized_trade_fee"
    /\ n_coins = 2
    /\ fees.trade_fee_denominator = Zero
    /\ fees.trade_fee_numerator = One
    /\ amount = FromInt(1000000)
    /\ result = None

\* C7: each simple fee operation is mul_div_imbalanced of the amount and
\* the operation's own rate pair: its result is that value, and it is the
\* result under every fee configuration with the same own pair.
C7_OwnPairOnly ==
    op \in SimpleFeeOps
        => /\ result = mul_div_imbalanced(amount, OwnPair(op, fees)[1],
                                          OwnPair(op, fees)[2])
           /\ \A g \in FeeConfigs :
                  OwnPair(op, g) = OwnPair(op, fees)
                      => ApplyFee(op, g, amount) = result

\* C7 witness: the admin trade fee of 1_000_000 at rate 1/1000 is 1000,
\* under a configuration whose trade rate is another one.
C7_Witness ==
    /\ op = "admin_trade_fee"
    /\ amount = FromInt(1000000)
    /\ fees.admin_trade_fee_numerator = One
    /\ fees.admin_trade_fee_denominator = FromInt(1000)
    /\ fees.trade_fee_denominator # FromInt(1000)
    /\ result = Some(FromInt(1000))

\* C10: with numerator <= denominator, a present result of a simple fee
\* operation is <= the amount; with trade_fee_numerator <=
\* trade_fee_denominator, so is a present normalized_trade_fee.
C10_FeeAtMostAmount ==
    /\ (/\ op \in SimpleFeeOps
        /\ LessEq(OwnPair(op, fees)[1], OwnPair(op, fees)[2])
        /\ IsSome(result))
           => LessEq(Unwrap(result), amount)
    /\ (/\ op = "normalized_trade_fee"
        /\ LessEq(fees.trade_fee_numerator, fees.trade_fee_denominator)
        /\ IsSome(result))
           => LessEq(Unwrap(result), amount)

\* C10 witness: at a rate of exactly 100% the fee is the whole amount.
C10_Witness ==
    /\ op = "withdraw_fee"
    /\ fees.withdraw_fee_numerator = U64_MAX
    /\ fees.withdraw_fee_denominator = U64_MAX
    /\ amount = U64_MAX
    /\ result = Some(U64_MAX)

\* The list a call starts from: the decoded account data, or the
\* placeholders when the data does not decode.
ExistingMessages(data) ==
    LET d == messages_try_from_slice(data)
    IN  IF d.err = "" THEN d.val ELSE get_init_chat_messages

C9_ForeignAccountUnchanged ==
    [][account_owner # PROGRAM_ID => account_data' = account_data]_vars
====
